---- MODULE Spec2Model ----
(***************************************************************************)
(* A model of tokio-mock: the mock mpsc channel (bounded and unbounded),   *)
(* the mock oneshot channel, the virtual clock and Delay, the scripted     *)
(* duplex stream and the select task of mock/mod.rs, each driven one       *)
(* explicit poll at a time as test::Spawn::poll does.                      *)
(*                                                                         *)
(* Option<T> is modelled as a sequence of length at most one: None is <<>> *)
(* and Some(v) is <<v>>.                                                   *)
(***************************************************************************)
EXTENDS Naturals, Sequences, FiniteSets

VARIABLES
    mpsc,       \* mpsc.rs ChannelData: queue, max_size, num_senders, is_active
    tx,         \* per Sender handle: its life cycle and the value of a suspended send
    rx,         \* the mpsc Receiver handle: "alive", "closed" (close() called), "dropped"
    recvFut,    \* TRUE while a ReceiveFuture that returned Pending is still held
    sent,       \* history: the values whose send returned Ok, in that order
    received,   \* history: the values recv/try_recv delivered, in that order
    eos,        \* history: a recv has already completed with None
    oneshot,    \* oneshot.rs ChannelData: msg, is_recv_dropped, is_send_dropped
    otx,        \* the oneshot Sender handle: "alive", "sent", "send_failed", "dropped"
    orx,        \* the oneshot Receiver handle: "alive", "closed", "dropped"
    closedFut,  \* TRUE while an IsClosedFuture that returned Pending is still held
    osent,      \* history: the value a oneshot send delivered into the slot (Option)
    otaken,     \* history: the oneshot value has been handed to the receiver
    clock,      \* clock.rs Clock: now
    delays,     \* per Delay object: None until constructed, then Some([deadline])
    made,       \* history, per Delay: how it was constructed, [by, t0, d]
    fired,      \* history: the Delays that have already been polled Ready
    shared,     \* test/io.rs Shared: write_pending, write_channel, read_channel
    handle,     \* the scripting Handle: "alive" or "dropped"
    aborted,    \* TRUE once a stream operation has panicked: the test is over
    readlog,    \* history of the stream's read side: [rec, open, scripted, delivered]
    selTask,    \* the select task of mock/mod.rs: its position, its Delay, its result
    last        \* the last operation and what it returned to its caller

vars == <<mpsc, tx, rx, recvFut, sent, received, eos,
          oneshot, otx, orx, closedFut, osent, otaken,
          clock, delays, made, fired, shared, handle, aborted, readlog, selTask, last>>

mpscVars == <<mpsc, tx, rx, recvFut, sent, received, eos>>
oneshotVars == <<oneshot, otx, orx, closedFut, osent, otaken>>
timeVars == <<clock, delays, made, fired>>
ioVars == <<shared, handle, aborted, readlog>>
selVars == <<selTask>>

(***************************************************************************)
(* Bounds of the model.                                                    *)
(***************************************************************************)
MaxCap == 2          \* largest capacity given to channel(buffer)
MaxSenders == 2      \* Sender handles that can exist over a run (clones included)
MaxSent == 3         \* sends that return Ok over a run
MaxTime == 3         \* the clock is advanced at most this far from its start
MaxDur == 2          \* largest Duration handed to advance / delay_for
NumDelays == 1       \* Delay objects
MaxChunk == 2        \* longest slice handed to the stream or to its Handle
MaxQueued == 3       \* most bytes queued on one side of the stream
MaxScripted == 3     \* most bytes Handle::read queues over a run whose bytes are recorded

\* The messages are opaque to the channel: two distinct ones tell every
\* reordering, loss or duplication apart.
Values == {1, 2}
SenderIds == 1..MaxSenders
DelayIds == 1..NumDelays
Durations == 0..MaxDur

None == <<>>
Some(v) == <<v>>

\* What an operation returned: op names the operation, who the handle, arg the
\* offered value (Option), kind the outcome and val the value it carries
\* (Option). rep flips when the same operation returns the same thing twice in
\* a row, so that no operation is a stuttering step.
Ret(op, who, arg, kind, val) ==
    [op |-> op, who |-> who, arg |-> arg, kind |-> kind, val |-> val,
     rep |-> IF /\ last.op = op /\ last.who = who /\ last.arg = arg
                /\ last.kind = kind /\ last.val = val
             THEN ~last.rep ELSE FALSE]

(***************************************************************************)
(* mpsc.rs                                                                 *)
(***************************************************************************)

\* ChannelData::new
ChannelData_new(max_size) ==
    [queue |-> <<>>, max_size |-> max_size, num_senders |-> 1, is_active |-> TRUE]

\* Mutant of ChannelData::try_recv: Closed is decided by is_active instead of
\* num_senders.
mpsc_try_recv_ClosedByActive(d) ==
    IF d.queue /= <<>>
    THEN [data |-> [d EXCEPT !.queue = Tail(d.queue)],
          kind |-> "Ok", val |-> Some(Head(d.queue))]
    ELSE IF ~d.is_active
    THEN [data |-> d, kind |-> "Closed", val |-> None]
    ELSE [data |-> d, kind |-> "Empty", val |-> None]

\* Mutant of ChannelData::try_recv: pop_back instead of pop_front.
mpsc_try_recv_PopBack(d) ==
    IF d.queue /= <<>>
    THEN [data |-> [d EXCEPT !.queue = SubSeq(d.queue, 1, Len(d.queue) - 1)],
          kind |-> "Ok", val |-> Some(d.queue[Len(d.queue)])]
    ELSE IF d.num_senders = 0
    THEN [data |-> d, kind |-> "Closed", val |-> None]
    ELSE [data |-> d, kind |-> "Empty", val |-> None]

\* ChannelData::try_recv: pop_front, else Closed when num_senders == 0, else Empty
mpsc_try_recv(d) ==
    IF d.queue /= <<>>
    THEN [data |-> [d EXCEPT !.queue = Tail(d.queue)],
          kind |-> "Ok", val |-> Some(Head(d.queue))]
    ELSE IF d.num_senders = 0
    THEN [data |-> d, kind |-> "Closed", val |-> None]
    ELSE [data |-> d, kind |-> "Empty", val |-> None]

\* Mutant of ChannelData::try_send: the capacity test is off by one.
mpsc_try_send_OffByOne(d, value) ==
    IF ~d.is_active
    THEN [data |-> d, kind |-> "Closed", val |-> Some(value)]
    ELSE IF d.max_size = None \/ Len(d.queue) <= d.max_size[1]
    THEN [data |-> [d EXCEPT !.queue = Append(d.queue, value)],
          kind |-> "Ok", val |-> None]
    ELSE [data |-> d, kind |-> "Full", val |-> Some(value)]

\* Mutant of ChannelData::try_send: the capacity is tested before is_active.
mpsc_try_send_FullFirst(d, value) ==
    IF d.max_size /= None /\ Len(d.queue) >= d.max_size[1]
    THEN [data |-> d, kind |-> "Full", val |-> Some(value)]
    ELSE IF ~d.is_active
    THEN [data |-> d, kind |-> "Closed", val |-> Some(value)]
    ELSE [data |-> [d EXCEPT !.queue = Append(d.queue, value)],
          kind |-> "Ok", val |-> None]

\* ChannelData::try_send, checking is_active before the capacity
mpsc_try_send(d, value) ==
    IF ~d.is_active
    THEN [data |-> d, kind |-> "Closed", val |-> Some(value)]
    ELSE IF d.max_size = None \/ Len(d.queue) < d.max_size[1]
    THEN [data |-> [d EXCEPT !.queue = Append(d.queue, value)],
          kind |-> "Ok", val |-> None]
    ELSE [data |-> d, kind |-> "Full", val |-> Some(value)]

\* ReceiveFuture::poll
ReceiveFuture_poll(d) ==
    LET r == mpsc_try_recv(d)
    IN  CASE r.kind = "Ok"     -> [data |-> r.data, kind |-> "Some", val |-> r.val]
          [] r.kind = "Closed" -> [data |-> r.data, kind |-> "None", val |-> None]
          [] r.kind = "Empty"  -> [data |-> r.data, kind |-> "Pending", val |-> None]

\* Mutant of SendFuture::poll: the capacity test is off by one.
SendFuture_poll_OffByOne(d) ==
    IF ~d.is_active
    THEN "ReadyFalse"
    ELSE IF d.max_size = None \/ Len(d.queue) <= d.max_size[1]
    THEN "ReadyTrue"
    ELSE "Pending"

\* SendFuture::poll: Ready(false), Ready(true) or Pending; it changes nothing
SendFuture_poll(d) ==
    IF ~d.is_active
    THEN "ReadyFalse"
    ELSE IF d.max_size = None \/ Len(d.queue) < d.max_size[1]
    THEN "ReadyTrue"
    ELSE "Pending"

\* Mutant of Sender::send: a send that has to wait puts its value in the queue
\* at once to hold the slot.
Sender_send_HoldsSlot(d, value) ==
    LET p == SendFuture_poll(d)
    IN  CASE p = "ReadyTrue"  -> [data |-> [d EXCEPT !.queue = Append(d.queue, value)],
                                  kind |-> "Ok", val |-> None]
          [] p = "ReadyFalse" -> [data |-> d, kind |-> "Err", val |-> Some(value)]
          [] p = "Pending"    -> [data |-> [d EXCEPT !.queue = Append(d.queue, value)],
                                  kind |-> "Pending", val |-> None]

\* One poll of the future of Sender::send(value): the SendFuture is polled and,
\* when it is Ready(true), the same poll goes on to push_back and returns Ok.
Sender_send(d, value) ==
    LET p == SendFuture_poll(d)
    IN  CASE p = "ReadyTrue"  -> [data |-> [d EXCEPT !.queue = Append(d.queue, value)],
                                  kind |-> "Ok", val |-> None]
          [] p = "ReadyFalse" -> [data |-> d, kind |-> "Err", val |-> Some(value)]
          [] p = "Pending"    -> [data |-> d, kind |-> "Pending", val |-> None]

\* UnboundedSender::send
UnboundedSender_send(d, value) ==
    IF d.is_active
    THEN [data |-> [d EXCEPT !.queue = Append(d.queue, value)],
          kind |-> "Ok", val |-> None]
    ELSE [data |-> d, kind |-> "Err", val |-> Some(value)]

\* Mutant of Receiver::close: what is queued is thrown away.
Receiver_close_Clear(d) == [d EXCEPT !.is_active = FALSE, !.queue = <<>>]

\* Receiver::close
Receiver_close(d) == [d EXCEPT !.is_active = FALSE]

\* Mutant of Drop for Receiver: the channel is not closed.
Receiver_drop_NoClose(d) == d

\* Drop for Receiver
Receiver_drop(d) == Receiver_close(d)

\* Mutant of Drop for Sender: the last Sender to go marks the channel inactive.
Sender_drop_Deactivate(d) ==
    [d EXCEPT !.num_senders = IF d.num_senders = 0 THEN 0 ELSE d.num_senders - 1,
              !.is_active = d.is_active /\ d.num_senders > 1]

\* Drop for Sender / UnboundedSender: saturating_sub(1)
Sender_drop(d) ==
    [d EXCEPT !.num_senders = IF d.num_senders = 0 THEN 0 ELSE d.num_senders - 1]

\* Mutant of Clone for Sender: the clone is not counted.
Sender_clone_NotCounted(d) == d

\* Clone for Sender / UnboundedSender: saturating_add(1); the model never comes
\* near usize::MAX, where the addition saturates
Sender_clone(d) == [d EXCEPT !.num_senders = d.num_senders + 1]

Bounded == mpsc.max_size /= None
LiveSenders == {s \in SenderIds : tx[s].st \in {"idle", "sending", "admitted"}}
SendOps == {"send", "send_again", "unbounded_send", "try_send"}
RecvOps == {"recv", "recv_again"}

\* channel(buffer) / unbounded_channel(): one Sender, one Receiver
InitMpscVars(sizes) ==
    /\ mpsc \in {ChannelData_new(m) : m \in sizes}
    /\ tx = [s \in SenderIds |-> [st |-> IF s = 1 THEN "idle" ELSE "none", val |-> None]]
    /\ rx = "alive"
    /\ recvFut = FALSE
    /\ sent = <<>>
    /\ received = <<>>
    /\ eos = FALSE

\* The bookkeeping of a send-like operation by sender s that returned r.
AfterSend(op, s, value, r) ==
    /\ r.kind = "Ok" => Len(sent) < MaxSent
    /\ mpsc' = r.data
    /\ tx' = [tx EXCEPT ![s] = IF r.kind = "Pending"
                               THEN [st |-> "sending", val |-> Some(value)]
                               ELSE [st |-> "idle", val |-> None]]
    /\ sent' = IF r.kind = "Ok" THEN Append(sent, value) ELSE sent
    /\ last' = Ret(op, s, Some(value), r.kind, r.val)
    /\ UNCHANGED <<rx, recvFut, received, eos>>

\* tx.send(value) wrapped in a task and polled for the first time
Send(s, value) ==
    /\ Bounded
    /\ tx[s].st = "idle"
    /\ AfterSend("send", s, value, Sender_send(mpsc, value))
    /\ UNCHANGED <<oneshotVars, timeVars, ioVars, selVars>>

\* the task of a suspended send is polled again
SendAgain(s) ==
    /\ tx[s].st = "sending"
    /\ AfterSend("send_again", s, tx[s].val[1], Sender_send(mpsc, tx[s].val[1]))
    /\ UNCHANGED <<oneshotVars, timeVars, ioVars, selVars>>

\* the task of a suspended send is dropped: the value goes with it
SendCancel(s) ==
    /\ tx[s].st = "sending"
    /\ tx' = [tx EXCEPT ![s] = [st |-> "idle", val |-> None]]
    /\ last' = Ret("send_cancel", s, None, "Done", None)
    /\ UNCHANGED <<mpsc, rx, recvFut, sent, received, eos, oneshotVars, timeVars, ioVars, selVars>>

\* UnboundedSender::send
UnboundedSend(s, value) ==
    /\ ~Bounded
    /\ tx[s].st = "idle"
    /\ AfterSend("unbounded_send", s, value, UnboundedSender_send(mpsc, value))
    /\ UNCHANGED <<oneshotVars, timeVars, ioVars, selVars>>

\* Sender::try_send / UnboundedSender::try_send
TrySend(s, value) ==
    /\ tx[s].st = "idle"
    /\ AfterSend("try_send", s, value, mpsc_try_send(mpsc, value))
    /\ UNCHANGED <<oneshotVars, timeVars, ioVars, selVars>>

\* Clone for Sender: a new handle t, the first identifier not yet used
Clone(s, t) ==
    /\ tx[s].st = "idle"
    /\ tx[t].st = "none"
    /\ \A u \in SenderIds : u < t => tx[u].st /= "none"
    /\ mpsc' = Sender_clone(mpsc)
    /\ tx' = [tx EXCEPT ![t] = [st |-> "idle", val |-> None]]
    /\ last' = Ret("clone", s, None, "Done", None)
    /\ UNCHANGED <<rx, recvFut, sent, received, eos, oneshotVars, timeVars, ioVars, selVars>>

\* Drop for Sender
DropSender(s) ==
    /\ tx[s].st = "idle"
    /\ mpsc' = Sender_drop(mpsc)
    /\ tx' = [tx EXCEPT ![s] = [st |-> "dropped", val |-> None]]
    /\ last' = Ret("drop_sender", s, None, "Done", None)
    /\ UNCHANGED <<rx, recvFut, sent, received, eos, oneshotVars, timeVars, ioVars, selVars>>

\* The bookkeeping of a receive operation that returned r.
AfterRecv(op, r) ==
    /\ mpsc' = r.data
    /\ received' = IF r.val /= None THEN Append(received, r.val[1]) ELSE received
    /\ eos' = (eos \/ r.kind = "None")
    /\ last' = Ret(op, 0, None, r.kind, r.val)
    /\ UNCHANGED <<tx, rx, sent>>

\* rx.recv() polled for the first time; the future holds its own reference to
\* the channel data and does not borrow the Receiver
Recv ==
    /\ rx /= "dropped"
    /\ ~recvFut
    /\ LET r == ReceiveFuture_poll(mpsc)
       IN  AfterRecv("recv", r) /\ recvFut' = (r.kind = "Pending")
    /\ UNCHANGED <<oneshotVars, timeVars, ioVars, selVars>>

\* a suspended ReceiveFuture is polled again (also after the Receiver is gone)
RecvAgain ==
    /\ recvFut
    /\ LET r == ReceiveFuture_poll(mpsc)
       IN  AfterRecv("recv_again", r) /\ recvFut' = (r.kind = "Pending")
    /\ UNCHANGED <<oneshotVars, timeVars, ioVars, selVars>>

\* a suspended ReceiveFuture is dropped
RecvCancel ==
    /\ recvFut
    /\ recvFut' = FALSE
    /\ last' = Ret("recv_cancel", 0, None, "Done", None)
    /\ UNCHANGED <<mpsc, tx, rx, sent, received, eos, oneshotVars, timeVars, ioVars, selVars>>

\* Receiver::try_recv
TryRecv ==
    /\ rx /= "dropped"
    /\ AfterRecv("try_recv", mpsc_try_recv(mpsc))
    /\ UNCHANGED <<recvFut, oneshotVars, timeVars, ioVars, selVars>>

\* Receiver::close
Close ==
    /\ rx /= "dropped"
    /\ mpsc' = Receiver_close(mpsc)
    /\ rx' = "closed"
    /\ last' = Ret("close", 0, None, "Done", None)
    /\ UNCHANGED <<tx, recvFut, sent, received, eos, oneshotVars, timeVars, ioVars, selVars>>

\* Drop for Receiver
DropReceiver ==
    /\ rx /= "dropped"
    /\ mpsc' = Receiver_drop(mpsc)
    /\ rx' = "dropped"
    /\ last' = Ret("drop_receiver", 0, None, "Done", None)
    /\ UNCHANGED <<tx, recvFut, sent, received, eos, oneshotVars, timeVars, ioVars, selVars>>

(***************************************************************************)
(* mpsc.rs under concurrent callers: Sender::send one lock at a time       *)
(***************************************************************************)

\* the second lock of Sender::send: self.data.lock().unwrap().queue.push_back(value)
Sender_push_back(d, value) == [d EXCEPT !.queue = Append(d.queue, value)]

\* The first lock of Sender::send, taken by SendFuture::poll, which only
\* looks: what the poll returned is kept by the caller, the lock is released.
AfterSendCheck(op, s, value) ==
    LET p == SendFuture_poll(mpsc)
    IN  /\ tx' = [tx EXCEPT ![s] =
                    CASE p = "ReadyTrue"  -> [st |-> "admitted", val |-> Some(value)]
                      [] p = "Pending"    -> [st |-> "sending", val |-> Some(value)]
                      [] p = "ReadyFalse" -> [st |-> "idle", val |-> None]]
        /\ last' = Ret(op, s, Some(value), p, None)
        /\ UNCHANGED <<mpsc, rx, recvFut, sent, received, eos,
                       oneshotVars, timeVars, ioVars, selVars>>

\* tx.send(value) polled for the first time, up to the release of the first lock
SendCheck(s, value) ==
    /\ Bounded
    /\ tx[s].st = "idle"
    /\ AfterSendCheck("send_check", s, value)

\* a suspended send polled again, up to the release of the first lock
SendCheckAgain(s) ==
    /\ tx[s].st = "sending"
    /\ AfterSendCheck("send_check_again", s, tx[s].val[1])

\* the rest of the poll of an admitted send: the second lock and push_back
SendPush(s) ==
    /\ tx[s].st = "admitted"
    /\ Len(sent) < MaxSent
    /\ mpsc' = Sender_push_back(mpsc, tx[s].val[1])
    /\ tx' = [tx EXCEPT ![s] = [st |-> "idle", val |-> None]]
    /\ sent' = Append(sent, tx[s].val[1])
    /\ last' = Ret("send_push", s, tx[s].val, "Ok", None)
    /\ UNCHANGED <<rx, recvFut, received, eos, oneshotVars, timeVars, ioVars, selVars>>

(***************************************************************************)
(* oneshot.rs                                                              *)
(***************************************************************************)

\* ChannelData::new
OneshotData_new == [msg |-> None, is_recv_dropped |-> FALSE, is_send_dropped |-> FALSE]

\* Mutant of the oneshot ChannelData::try_recv: is_send_dropped is tested
\* before the slot.
oneshot_try_recv_ClosedFirst(d) ==
    IF d.is_send_dropped
    THEN [data |-> d, kind |-> "Closed", val |-> None]
    ELSE IF d.msg /= None
    THEN [data |-> [d EXCEPT !.msg = None], kind |-> "Ok", val |-> d.msg]
    ELSE [data |-> d, kind |-> "Empty", val |-> None]

\* Mutant of ChannelData::try_recv: the value is copied out and stays in the
\* slot.
oneshot_try_recv_NoTake(d) ==
    IF d.msg /= None
    THEN [data |-> d, kind |-> "Ok", val |-> d.msg]
    ELSE IF d.is_send_dropped
    THEN [data |-> d, kind |-> "Closed", val |-> None]
    ELSE [data |-> d, kind |-> "Empty", val |-> None]

\* ChannelData::try_recv: msg.take(), else Closed when is_send_dropped, else Empty
oneshot_try_recv(d) ==
    IF d.msg /= None
    THEN [data |-> [d EXCEPT !.msg = None], kind |-> "Ok", val |-> d.msg]
    ELSE IF d.is_send_dropped
    THEN [data |-> d, kind |-> "Closed", val |-> None]
    ELSE [data |-> d, kind |-> "Empty", val |-> None]

\* Future for Receiver: poll
oneshot_Receiver_poll(d) ==
    LET r == oneshot_try_recv(d)
    IN  CASE r.kind = "Ok"     -> [data |-> r.data, kind |-> "ReadyOk", val |-> r.val]
          [] r.kind = "Closed" -> [data |-> r.data, kind |-> "ReadyErr", val |-> None]
          [] r.kind = "Empty"  -> [data |-> r.data, kind |-> "Pending", val |-> None]

\* Drop for Sender
oneshot_Sender_drop(d) == [d EXCEPT !.is_send_dropped = TRUE]

\* Mutant of Sender::send: the value is stored whatever is_recv_dropped says.
oneshot_send_body_Unchecked(d, value) ==
    [data |-> [d EXCEPT !.msg = Some(value)], kind |-> "Ok", val |-> None]

\* The body of Sender::send(self, value): msg.replace(value) unless is_recv_dropped
oneshot_send_body(d, value) ==
    IF ~d.is_recv_dropped
    THEN [data |-> [d EXCEPT !.msg = Some(value)], kind |-> "Ok", val |-> None]
    ELSE [data |-> d, kind |-> "Err", val |-> Some(value)]

\* Sender::send(self, value): the body, then self goes out of scope and
\* Drop for Sender runs before the call returns
oneshot_Sender_send(d, value) ==
    LET r == oneshot_send_body(d, value)
    IN  [r EXCEPT !.data = oneshot_Sender_drop(r.data)]

\* Mutant of IsClosedFuture::poll: it reads the producer-side flag.
IsClosedFuture_poll_SendFlag(d) == IF d.is_send_dropped THEN "Ready" ELSE "Pending"

\* IsClosedFuture::poll
IsClosedFuture_poll(d) == IF d.is_recv_dropped THEN "Ready" ELSE "Pending"

\* Sender::is_closed
oneshot_is_closed(d) == d.is_recv_dropped

\* Receiver::close
oneshot_Receiver_close(d) == [d EXCEPT !.is_recv_dropped = TRUE]

\* Drop for Receiver
oneshot_Receiver_drop(d) == oneshot_Receiver_close(d)

\* channel()
InitOneshotVars ==
    /\ oneshot = OneshotData_new
    /\ otx = "alive"
    /\ orx = "alive"
    /\ closedFut = FALSE
    /\ osent = None
    /\ otaken = FALSE

\* tx.send(value)
OSend(value) ==
    /\ otx = "alive"
    /\ LET r == oneshot_Sender_send(oneshot, value)
       IN  /\ oneshot' = r.data
           /\ otx' = IF r.kind = "Ok" THEN "sent" ELSE "send_failed"
           /\ osent' = IF r.kind = "Ok" THEN Some(value) ELSE osent
           /\ last' = Ret("oneshot_send", 0, Some(value), r.kind, r.val)
    /\ UNCHANGED <<orx, closedFut, otaken, mpscVars, timeVars, ioVars, selVars>>

\* drop(tx)
ODropSender ==
    /\ otx = "alive"
    /\ oneshot' = oneshot_Sender_drop(oneshot)
    /\ otx' = "dropped"
    /\ last' = Ret("oneshot_drop_sender", 0, None, "Done", None)
    /\ UNCHANGED <<orx, closedFut, osent, otaken, mpscVars, timeVars, ioVars, selVars>>

\* The bookkeeping of a oneshot receive that returned r.
AfterORecv(op, r) ==
    /\ oneshot' = r.data
    /\ otaken' = (otaken \/ r.val /= None)
    /\ last' = Ret(op, 0, None, r.kind, r.val)
    /\ UNCHANGED <<otx, orx, closedFut, osent, mpscVars, timeVars, ioVars, selVars>>

\* the Receiver polled as a future by the task driver
ORecvPoll ==
    /\ orx /= "dropped"
    /\ AfterORecv("oneshot_poll", oneshot_Receiver_poll(oneshot))

\* rx.try_recv()
OTryRecv ==
    /\ orx /= "dropped"
    /\ AfterORecv("oneshot_try_recv", oneshot_try_recv(oneshot))

\* rx.close()
OClose ==
    /\ orx /= "dropped"
    /\ oneshot' = oneshot_Receiver_close(oneshot)
    /\ orx' = "closed"
    /\ last' = Ret("oneshot_close", 0, None, "Done", None)
    /\ UNCHANGED <<otx, closedFut, osent, otaken, mpscVars, timeVars, ioVars, selVars>>

\* drop(rx)
ODropReceiver ==
    /\ orx /= "dropped"
    /\ oneshot' = oneshot_Receiver_drop(oneshot)
    /\ orx' = "dropped"
    /\ last' = Ret("oneshot_drop_receiver", 0, None, "Done", None)
    /\ UNCHANGED <<otx, closedFut, osent, otaken, mpscVars, timeVars, ioVars, selVars>>

\* tx.is_closed()
OIsClosed ==
    /\ otx = "alive"
    /\ last' = Ret("is_closed", 0, None,
                   IF oneshot_is_closed(oneshot) THEN "True" ELSE "False", None)
    /\ UNCHANGED <<oneshotVars, mpscVars, timeVars, ioVars, selVars>>

\* tx.closed() polled for the first time; the future holds its own reference
\* to the channel data and does not borrow the Sender
OClosed ==
    /\ otx = "alive"
    /\ ~closedFut
    /\ LET p == IsClosedFuture_poll(oneshot)
       IN  /\ closedFut' = (p = "Pending")
           /\ last' = Ret("closed", 0, None, p, None)
    /\ UNCHANGED <<oneshot, otx, orx, osent, otaken, mpscVars, timeVars, ioVars, selVars>>

\* a suspended IsClosedFuture is polled again
OClosedAgain ==
    /\ closedFut
    /\ LET p == IsClosedFuture_poll(oneshot)
       IN  /\ closedFut' = (p = "Pending")
           /\ last' = Ret("closed_again", 0, None, p, None)
    /\ UNCHANGED <<oneshot, otx, orx, osent, otaken, mpscVars, timeVars, ioVars, selVars>>

\* a suspended IsClosedFuture is dropped
OClosedCancel ==
    /\ closedFut
    /\ closedFut' = FALSE
    /\ last' = Ret("closed_cancel", 0, None, "Done", None)
    /\ UNCHANGED <<oneshot, otx, orx, osent, otaken, mpscVars, timeVars, ioVars, selVars>>

(***************************************************************************)
(* time/clock.rs, time/delay.rs, time/mod.rs                               *)
(***************************************************************************)

\* Clock::now
Clock_now(c) == c.now

\* Mutant of Clock::advance: now is set to the duration instead of moved by it.
Clock_advance_Set(c, duration) == [c EXCEPT !.now = duration]

\* Clock::advance: self.now += duration
Clock_advance(c, duration) == [c EXCEPT !.now = c.now + duration]

\* Delay::new_deadline
Delay_new_deadline(deadline) == [deadline |-> deadline]

\* Mutant of Delay::new_delay: the duration is taken for the deadline.
Delay_new_delay_Absolute(c, delay) == [deadline |-> delay]

\* Delay::new_delay: deadline = clock::now() + delay
Delay_new_delay(c, delay) == [deadline |-> Clock_now(c) + delay]

\* Mutant of Delay::is_elapsed: the deadline itself does not count as elapsed.
Delay_is_elapsed_Strict(dl, c) == Clock_now(c) > dl.deadline

\* Delay::is_elapsed: clock::now() >= self.deadline
Delay_is_elapsed(dl, c) == Clock_now(c) >= dl.deadline

\* Future for Delay: poll
Delay_poll(dl, c) == IF Delay_is_elapsed(dl, c) THEN "Ready" ELSE "Pending"

\* The thread's clock at its first use; instants are counted from there.
InitTimeVars ==
    /\ clock = [now |-> 0]
    /\ delays = [i \in DelayIds |-> None]
    /\ made = [i \in DelayIds |-> None]
    /\ fired = {}

\* time::advance(duration)
Advance(duration) ==
    /\ clock.now + duration <= MaxTime
    /\ clock' = Clock_advance(clock, duration)
    /\ last' = Ret("advance", 0, Some(duration), "Done", None)
    /\ UNCHANGED <<delays, made, fired, mpscVars, oneshotVars, ioVars, selVars>>

\* time::delay_for(duration)
DelayFor(i, duration) ==
    /\ delays[i] = None
    /\ delays' = [delays EXCEPT ![i] = Some(Delay_new_delay(clock, duration))]
    /\ made' = [made EXCEPT ![i] = Some([by |-> "for", t0 |-> clock.now, d |-> duration])]
    /\ last' = Ret("delay_for", i, Some(duration), "Done", None)
    /\ UNCHANGED <<clock, fired, mpscVars, oneshotVars, ioVars, selVars>>

\* time::delay_until(deadline)
DelayUntil(i, deadline) ==
    /\ delays[i] = None
    /\ delays' = [delays EXCEPT ![i] = Some(Delay_new_deadline(deadline))]
    /\ made' = [made EXCEPT ![i] = Some([by |-> "until", t0 |-> clock.now, d |-> deadline])]
    /\ last' = Ret("delay_until", i, Some(deadline), "Done", None)
    /\ UNCHANGED <<clock, fired, mpscVars, oneshotVars, ioVars, selVars>>

\* the Delay polled by the task driver
DelayPoll(i) ==
    /\ delays[i] /= None
    /\ LET p == Delay_poll(delays[i][1], clock)
       IN  /\ fired' = IF p = "Ready" THEN fired \cup {i} ELSE fired
           /\ last' = Ret("delay_poll", i, None, p, None)
    /\ UNCHANGED <<clock, delays, made, mpscVars, oneshotVars, ioVars, selVars>>

(***************************************************************************)
(* test/io.rs: the scripted duplex stream                                  *)
(***************************************************************************)

\* The bytes are opaque to the stream: two distinct ones tell a match from a
\* mismatch and every reordering apart.
Bytes == {1, 2}
ErrorKinds == {"BrokenPipe", "TimedOut"}

RECURSIVE SeqsUpTo(_, _)
\* the sequences over S of length at most n
SeqsUpTo(S, n) ==
    IF n = 0 THEN {<<>>}
    ELSE LET shorter == SeqsUpTo(S, n - 1)
         IN  shorter \cup {Append(q, b) : q \in {x \in shorter : Len(x) = n - 1}, b \in S}

\* the slices the scripting handle and the stream's callers pass
Chunks == SeqsUpTo(Bytes, MaxChunk)
BufLens == 0..MaxChunk

\* enum ChannelState: Open(VecDeque<u8>), Closed, Error(ErrorKind); buffer is
\* meaningful in Open only and err in Error only
Open(buffer) == [st |-> "Open", buffer |-> buffer, err |-> None]
Closed == [st |-> "Closed", buffer |-> <<>>, err |-> None]
Error(err) == [st |-> "Error", buffer |-> <<>>, err |-> Some(err)]

\* ChannelState::new
ChannelState_new == Open(<<>>)

\* Mutant of ChannelState::push: a side that is not Open stays as it is.
ChannelState_push_NoRearm(c, data) ==
    IF c.st = "Open" THEN Open(c.buffer \o data) ELSE c

\* Mutant of ChannelState::push: the data goes in front of what is queued.
ChannelState_push_Front(c, data) ==
    IF c.st = "Open" THEN Open(data \o c.buffer) ELSE Open(data)

\* ChannelState::push: extend an Open queue, otherwise reopen with the data
ChannelState_push(c, data) ==
    IF c.st = "Open" THEN Open(c.buffer \o data) ELSE Open(data)

\* ChannelState::close
ChannelState_close(c) == Closed

\* ChannelState::error
ChannelState_error(c, err) == Error(err)

\* ChannelState::is_empty
ChannelState_is_empty(c) == IF c.st = "Open" THEN c.buffer = <<>> ELSE TRUE

\* Shared::new
Shared_new ==
    [write_pending |-> FALSE,
     write_channel |-> ChannelState_new,
     read_channel |-> ChannelState_new]

Min(a, b) == IF a <= b THEN a ELSE b

RECURSIVE read_loop(_, _, _)
\* the for loop of poll_read over the n cells of buf: pop_front into each cell,
\* return when the queue runs out; out is what has been copied so far
read_loop(data, n, out) ==
    IF n = 0 THEN [data |-> data, out |-> out]
    ELSE IF data /= <<>>
    THEN read_loop(Tail(data), n - 1, Append(out, Head(data)))
    ELSE [data |-> data, out |-> out]

\* Mutant of MockIO::poll_read: a buffer shorter than what is queued is a fatal
\* error.
MockIO_poll_read_Strict(sh, n) ==
    LET c == sh.read_channel
    IN  IF c.st = "Open"
        THEN IF Len(c.buffer) = 0
             THEN [data |-> sh, kind |-> "Pending", val |-> None]
             ELSE IF n < Len(c.buffer)
             THEN [data |-> sh, kind |-> "Panic", val |-> None]
             ELSE LET r == read_loop(c.buffer, n, <<>>)
                  IN  [data |-> [sh EXCEPT !.read_channel = Open(r.data)],
                       kind |-> "Ok", val |-> r.out]
        ELSE IF c.st = "Closed"
        THEN [data |-> sh, kind |-> "Ok", val |-> <<>>]
        ELSE [data |-> sh, kind |-> "Err", val |-> c.err]

\* Mutant of MockIO::poll_read: an empty Open queue reads as end of stream.
MockIO_poll_read_EmptyIsEof(sh, n) ==
    LET c == sh.read_channel
    IN  IF c.st = "Open"
        THEN LET r == read_loop(c.buffer, n, <<>>)
             IN  [data |-> [sh EXCEPT !.read_channel = Open(r.data)],
                  kind |-> "Ok", val |-> r.out]
        ELSE IF c.st = "Closed"
        THEN [data |-> sh, kind |-> "Ok", val |-> <<>>]
        ELSE [data |-> sh, kind |-> "Err", val |-> c.err]

\* Mutant of MockIO::poll_read: the error is reported once and the side is
\* Open again.
MockIO_poll_read_ErrOnce(sh, n) ==
    LET c == sh.read_channel
    IN  IF c.st = "Open"
        THEN IF Len(c.buffer) = 0
             THEN [data |-> sh, kind |-> "Pending", val |-> None]
             ELSE LET r == read_loop(c.buffer, n, <<>>)
                  IN  [data |-> [sh EXCEPT !.read_channel = Open(r.data)],
                       kind |-> "Ok", val |-> r.out]
        ELSE IF c.st = "Closed"
        THEN [data |-> sh, kind |-> "Ok", val |-> <<>>]
        ELSE [data |-> [sh EXCEPT !.read_channel = Open(<<>>)],
              kind |-> "Err", val |-> c.err]

\* AsyncRead for MockIO: poll_read with a buffer of n cells. val holds the
\* bytes copied into the buffer (Ok(num_bytes) is their number) or the error
\* kind.
MockIO_poll_read(sh, n) ==
    LET c == sh.read_channel
    IN  IF c.st = "Open"
        THEN IF Len(c.buffer) = 0
             THEN [data |-> sh, kind |-> "Pending", val |-> None]
             ELSE LET r == read_loop(c.buffer, n, <<>>)
                  IN  [data |-> [sh EXCEPT !.read_channel = Open(r.data)],
                       kind |-> "Ok", val |-> r.out]
        ELSE IF c.st = "Closed"
        THEN [data |-> sh, kind |-> "Ok", val |-> <<>>]
        ELSE [data |-> sh, kind |-> "Err", val |-> c.err]

RECURSIVE write_loop(_, _, _)
\* the for loop of poll_write over the bytes of buf: pop_front the expected
\* byte and compare; "Mismatch" is the panic!, "Short" the return taken when
\* the expected queue runs out, "All" the end of the loop
write_loop(data, buf, num_bytes) ==
    IF buf = <<>> THEN [data |-> data, how |-> "All", num_bytes |-> num_bytes]
    ELSE IF data /= <<>>
    THEN IF Head(buf) /= Head(data)
         THEN [data |-> Tail(data), how |-> "Mismatch", num_bytes |-> num_bytes]
         ELSE write_loop(Tail(data), Tail(buf), num_bytes + 1)
    ELSE [data |-> data, how |-> "Short", num_bytes |-> num_bytes]

RECURSIVE write_loop_Unchecked(_, _, _)
\* Mutant of the loop of poll_write: the bytes are counted without being
\* compared.
write_loop_Unchecked(data, buf, num_bytes) ==
    IF buf = <<>> THEN [data |-> data, how |-> "All", num_bytes |-> num_bytes]
    ELSE IF data /= <<>>
    THEN write_loop_Unchecked(Tail(data), Tail(buf), num_bytes + 1)
    ELSE [data |-> data, how |-> "Short", num_bytes |-> num_bytes]

\* Mutant of MockIO::poll_write: a Closed write side accepts Ok(buf.len()).
MockIO_poll_write_ClosedAcceptsAll(sh, buf) ==
    LET c == sh.write_channel
    IN  IF c.st = "Open"
        THEN IF Len(c.buffer) = 0
             THEN [data |-> [sh EXCEPT !.write_pending = TRUE],
                   kind |-> "Pending", val |-> None]
             ELSE LET r == write_loop(c.buffer, buf, 0)
                      popped == [sh EXCEPT !.write_channel = Open(r.data)]
                  IN  IF r.how = "Mismatch"
                      THEN [data |-> popped, kind |-> "Panic", val |-> None]
                      ELSE [data |-> [popped EXCEPT !.write_pending = (r.how = "Short")],
                            kind |-> "Ok", val |-> Some(r.num_bytes)]
        ELSE IF c.st = "Closed"
        THEN [data |-> sh, kind |-> "Ok", val |-> Some(Len(buf))]
        ELSE [data |-> sh, kind |-> "Err", val |-> c.err]

\* Mutant of MockIO::poll_write: the bytes are not compared with the script.
MockIO_poll_write_Unchecked(sh, buf) ==
    LET c == sh.write_channel
    IN  IF c.st = "Open"
        THEN IF Len(c.buffer) = 0
             THEN [data |-> [sh EXCEPT !.write_pending = TRUE],
                   kind |-> "Pending", val |-> None]
             ELSE LET r == write_loop_Unchecked(c.buffer, buf, 0)
                      popped == [sh EXCEPT !.write_channel = Open(r.data)]
                  IN  [data |-> [popped EXCEPT !.write_pending = (r.how = "Short")],
                       kind |-> "Ok", val |-> Some(r.num_bytes)]
        ELSE IF c.st = "Closed"
        THEN [data |-> sh, kind |-> "Ok", val |-> Some(0)]
        ELSE [data |-> sh, kind |-> "Err", val |-> c.err]

\* Mutant of MockIO::poll_write: every write that returns clears
\* write_pending, also one that ran out of expected bytes.
MockIO_poll_write_FlagOnlyOnEmpty(sh, buf) ==
    LET c == sh.write_channel
    IN  IF c.st = "Open"
        THEN IF Len(c.buffer) = 0
             THEN [data |-> [sh EXCEPT !.write_pending = TRUE],
                   kind |-> "Pending", val |-> None]
             ELSE LET r == write_loop(c.buffer, buf, 0)
                      popped == [sh EXCEPT !.write_channel = Open(r.data)]
                  IN  IF r.how = "Mismatch"
                      THEN [data |-> popped, kind |-> "Panic", val |-> None]
                      ELSE [data |-> [popped EXCEPT !.write_pending = FALSE],
                            kind |-> "Ok", val |-> Some(r.num_bytes)]
        ELSE IF c.st = "Closed"
        THEN [data |-> sh, kind |-> "Ok", val |-> Some(0)]
        ELSE [data |-> sh, kind |-> "Err", val |-> c.err]

\* AsyncWrite for MockIO: poll_write. On a mismatch the panic! leaves the
\* expected bytes popped so far removed and write_pending as it was; val holds
\* num_bytes or the error kind.
MockIO_poll_write(sh, buf) ==
    LET c == sh.write_channel
    IN  IF c.st = "Open"
        THEN IF Len(c.buffer) = 0
             THEN [data |-> [sh EXCEPT !.write_pending = TRUE],
                   kind |-> "Pending", val |-> None]
             ELSE LET r == write_loop(c.buffer, buf, 0)
                      popped == [sh EXCEPT !.write_channel = Open(r.data)]
                  IN  IF r.how = "Mismatch"
                      THEN [data |-> popped, kind |-> "Panic", val |-> None]
                      ELSE [data |-> [popped EXCEPT !.write_pending = (r.how = "Short")],
                            kind |-> "Ok", val |-> Some(r.num_bytes)]
        ELSE IF c.st = "Closed"
        THEN [data |-> sh, kind |-> "Ok", val |-> Some(0)]
        ELSE [data |-> sh, kind |-> "Err", val |-> c.err]

\* Mutant of Drop for Handle: only the read side is closed.
Handle_drop_ReadOnly(sh, poisoned) ==
    IF poisoned THEN sh
    ELSE [sh EXCEPT !.read_channel = ChannelState_close(sh.read_channel)]

\* Drop for Handle: close both sides if the lock can be taken; a panic inside
\* poll_write has poisoned it
Handle_drop(sh, poisoned) ==
    IF poisoned THEN sh
    ELSE [sh EXCEPT !.read_channel = ChannelState_close(sh.read_channel),
                    !.write_channel = ChannelState_close(sh.write_channel)]

\* The history of the read side. open: the side has been Open ever since
\* mock(), with no close_read, read_error or drop of the Handle. While rec and
\* open hold, scripted is every byte Handle::read queued and delivered every
\* byte the reads handed out, both in order; rec is chosen at the start.
NewLog(rec) == [rec |-> rec, open |-> TRUE, scripted |-> <<>>, delivered |-> <<>>]
Recording == readlog.rec /\ readlog.open
LogScripted(data) ==
    IF Recording THEN [readlog EXCEPT !.scripted = @ \o data] ELSE readlog
LogDelivered(bytes) ==
    IF Recording THEN [readlog EXCEPT !.delivered = @ \o bytes] ELSE readlog
LogLeftOpen ==
    [rec |-> readlog.rec, open |-> FALSE, scripted |-> <<>>, delivered |-> <<>>]

\* mock(): a fresh stream and its scripting handle
InitIoVars ==
    /\ shared = Shared_new
    /\ handle = "alive"
    /\ aborted = FALSE
    /\ readlog = NewLog(FALSE)

\* A Handle method that changes the script: sh is the Shared it leaves.
AfterScript(op, arg, sh, log) ==
    /\ handle = "alive"
    /\ ~aborted
    /\ Len(sh.read_channel.buffer) <= MaxQueued
    /\ Len(sh.write_channel.buffer) <= MaxQueued
    /\ Len(log.scripted) <= MaxScripted
    /\ shared' = sh
    /\ readlog' = log
    /\ last' = Ret(op, 0, arg, "Done", None)
    /\ UNCHANGED <<handle, aborted, mpscVars, oneshotVars, timeVars, selVars>>

\* Handle::read(data): queue bytes for the stream's reader
HandleRead(data) ==
    AfterScript("handle_read", data,
                [shared EXCEPT !.read_channel = ChannelState_push(@, data)],
                LogScripted(data))

\* Handle::close_read
HandleCloseRead ==
    AfterScript("close_read", None,
                [shared EXCEPT !.read_channel = ChannelState_close(@)],
                LogLeftOpen)

\* Handle::read_error(err)
HandleReadError(err) ==
    AfterScript("read_error", Some(err),
                [shared EXCEPT !.read_channel = ChannelState_error(@, err)],
                LogLeftOpen)

\* Handle::write(data): queue bytes the stream's writer is expected to write
HandleWrite(data) ==
    AfterScript("handle_write", data,
                [shared EXCEPT !.write_channel = ChannelState_push(@, data)],
                readlog)

\* Handle::close_write
HandleCloseWrite ==
    AfterScript("close_write", None,
                [shared EXCEPT !.write_channel = ChannelState_close(@)],
                readlog)

\* Handle::write_error(err)
HandleWriteError(err) ==
    AfterScript("write_error", Some(err),
                [shared EXCEPT !.write_channel = ChannelState_error(@, err)],
                readlog)

\* A Handle query: it returns answer and changes nothing.
AfterQuery(op, answer) ==
    /\ handle = "alive"
    /\ ~aborted
    /\ last' = Ret(op, 0, None, "Done", Some(answer))
    /\ UNCHANGED <<ioVars, mpscVars, oneshotVars, timeVars, selVars>>

\* Handle::all_read
HandleAllRead == AfterQuery("all_read", ChannelState_is_empty(shared.read_channel))

\* Handle::all_written
HandleAllWritten == AfterQuery("all_written", ChannelState_is_empty(shared.write_channel))

\* Handle::pending_write
HandlePendingWrite == AfterQuery("pending_write", shared.write_pending)

\* Handle::all_done: all_read() && all_written()
HandleAllDone ==
    AfterQuery("all_done", /\ ChannelState_is_empty(shared.read_channel)
                           /\ ChannelState_is_empty(shared.write_channel))

\* the Handle is dropped, by the test or by the unwinding of a panic
DropHandle ==
    /\ handle = "alive"
    /\ shared' = Handle_drop(shared, aborted)
    /\ handle' = "dropped"
    /\ readlog' = IF aborted THEN readlog ELSE LogLeftOpen
    /\ last' = Ret("drop_handle", 0, None, "Done", None)
    /\ UNCHANGED <<aborted, mpscVars, oneshotVars, timeVars, selVars>>

\* io.read(&mut buf) with a buffer of n cells, wrapped in a task and polled:
\* one call of poll_read
Read(n) ==
    /\ ~aborted
    /\ LET r == MockIO_poll_read(shared, n)
       IN  /\ shared' = r.data
           /\ aborted' = (r.kind = "Panic")
           /\ readlog' = IF r.kind = "Ok" THEN LogDelivered(r.val) ELSE readlog
           /\ last' = Ret("read", 0, Some(n), r.kind, r.val)
    /\ UNCHANGED <<handle, mpscVars, oneshotVars, timeVars, selVars>>

\* io.write(buf) wrapped in a task and polled: one call of poll_write
Write(buf) ==
    /\ ~aborted
    /\ LET r == MockIO_poll_write(shared, buf)
       IN  /\ shared' = r.data
           /\ aborted' = (r.kind = "Panic")
           /\ last' = Ret("write", 0, buf, r.kind, r.val)
    /\ UNCHANGED <<handle, readlog, mpscVars, oneshotVars, timeVars, selVars>>

\* poll_flush and poll_shutdown: Ready(Ok(())) without a look at the state
Flush ==
    /\ ~aborted
    /\ last' = Ret("flush", 0, None, "Ok", None)
    /\ UNCHANGED <<ioVars, mpscVars, oneshotVars, timeVars, selVars>>

Shutdown ==
    /\ ~aborted
    /\ last' = Ret("shutdown", 0, None, "Ok", None)
    /\ UNCHANGED <<ioVars, mpscVars, oneshotVars, timeVars, selVars>>

(***************************************************************************)
(* mock/mod.rs and test/mod.rs: the task that races a Delay against recv,  *)
(* driven by Spawn::poll                                                   *)
(***************************************************************************)

\* Duration::from_secs(1) of select_task, in the clock's unit
SelectDelay == 1

\* the order in which tokio::select! polls its two branches; the macro draws
\* the branch it starts with at random
SelectOrders == {"delay_first", "recv_first"}

\* The task: st is "none" (no task), "spawned" (not polled yet), "suspended",
\* "done", "panicked" or "dropped"; delay is the Delay built at the first poll;
\* out is the Option<u32> the task completed with.
NoTask == [st |-> "none", delay |-> None, out |-> None]
SpawnedTask == [st |-> "spawned", delay |-> None, out |-> None]

InitSelVars == selTask = NoTask

\* the Delay of the task: time::delay_for runs when the async block is first
\* polled
select_delay(t, c) ==
    IF t.delay = None THEN Delay_new_delay(c, SelectDelay) ELSE t.delay[1]

\* Mutant of the select task: the Delay branch is never polled.
select_poll_NoDelay(t, d, c, order) ==
    LET dl == select_delay(t, c)
        rr == ReceiveFuture_poll(d)
    IN  IF rr.kind = "Some"
        THEN [task |-> [st |-> "done", delay |-> Some(dl), out |-> Some(rr.val)],
              data |-> Receiver_drop(rr.data), kind |-> "Ready", val |-> Some(rr.val)]
        ELSE IF rr.kind = "None"
        THEN [task |-> [st |-> "panicked", delay |-> Some(dl), out |-> None],
              data |-> Receiver_drop(rr.data), kind |-> "Panic", val |-> None]
        ELSE [task |-> [st |-> "suspended", delay |-> Some(dl), out |-> None],
              data |-> d, kind |-> "Pending", val |-> None]

\* One poll of the async block of select_task: both branches are polled in the
\* given order until one is Ready. The Delay branch completes the task with
\* None, the recv branch with Some(value.unwrap()), which panics on the None
\* of recv. A task that completes or panics drops the Receiver it owns.
select_poll(t, d, c, order) ==
    LET dl == select_delay(t, c)
        elapsed == Delay_poll(dl, c) = "Ready"
        rr == ReceiveFuture_poll(d)
        timeout == [task |-> [st |-> "done", delay |-> Some(dl), out |-> Some(None)],
                    data |-> Receiver_drop(d), kind |-> "Ready", val |-> Some(None)]
        message == [task |-> [st |-> "done", delay |-> Some(dl), out |-> Some(rr.val)],
                    data |-> Receiver_drop(rr.data), kind |-> "Ready", val |-> Some(rr.val)]
        unwrap_none == [task |-> [st |-> "panicked", delay |-> Some(dl), out |-> None],
                        data |-> Receiver_drop(rr.data), kind |-> "Panic", val |-> None]
        pending == [task |-> [st |-> "suspended", delay |-> Some(dl), out |-> None],
                    data |-> d, kind |-> "Pending", val |-> None]
    IN  IF order = "delay_first"
        THEN IF elapsed THEN timeout
             ELSE IF rr.kind = "Some" THEN message
             ELSE IF rr.kind = "None" THEN unwrap_none
             ELSE pending
        ELSE IF rr.kind = "Some" THEN message
             ELSE IF rr.kind = "None" THEN unwrap_none
             ELSE IF elapsed THEN timeout
             ELSE pending

\* Mutant of the null waker: wake polls the task again.
NullWaker_wake_Repoll(t, d, c) ==
    LET r == select_poll(t, d, c, "recv_first")
    IN  [task |-> r.task, data |-> r.data]

\* details::NULL_WAKER_VTABLE: clone, wake, wake_by_ref and drop do nothing
NullWaker_wake(t, d, c) == [task |-> t, data |-> d]

\* Spawn::poll on select_task
SelectPoll ==
    /\ selTask.st \in {"spawned", "suspended"}
    /\ \E order \in SelectOrders :
         LET r == select_poll(selTask, mpsc, clock, order)
         IN  /\ selTask' = r.task
             /\ mpsc' = r.data
             /\ rx' = IF r.kind = "Pending" THEN rx ELSE "dropped"
             /\ received' = IF r.val /= None /\ r.val[1] /= None
                            THEN Append(received, r.val[1][1]) ELSE received
             /\ last' = Ret("select_poll", 0, None, r.kind, r.val)
    /\ UNCHANGED <<tx, recvFut, sent, eos, oneshotVars, timeVars, ioVars>>

\* drop(select_task) before it completed: the Receiver it owns goes with it
SelectDrop ==
    /\ selTask.st \in {"spawned", "suspended"}
    /\ selTask' = [selTask EXCEPT !.st = "dropped"]
    /\ mpsc' = Receiver_drop(mpsc)
    /\ rx' = "dropped"
    /\ last' = Ret("select_drop", 0, None, "Done", None)
    /\ UNCHANGED <<tx, recvFut, sent, received, eos, oneshotVars, timeVars, ioVars>>

\* the waker of the Context handed to the task is invoked
Wake ==
    /\ selTask.st \in {"spawned", "suspended"}
    /\ LET r == NullWaker_wake(selTask, mpsc, clock)
       IN  /\ selTask' = r.task
           /\ mpsc' = r.data
           /\ rx' = IF r.task.st \in {"done", "panicked"} THEN "dropped" ELSE rx
    /\ last' = Ret("wake", 0, None, "Done", None)
    /\ UNCHANGED <<tx, recvFut, sent, received, eos, oneshotVars, timeVars, ioVars>>

(***************************************************************************)
(* Specifications                                                          *)
(***************************************************************************)

InitLast ==
    last = [op |-> "new", who |-> 0, arg |-> None, kind |-> "Done", val |-> None,
            rep |-> FALSE]

ChannelSizes == {None} \cup {Some(c) : c \in 0..MaxCap}

Init ==
    /\ InitMpscVars(ChannelSizes)
    /\ InitOneshotVars
    /\ InitTimeVars
    /\ InitIoVars
    /\ InitSelVars
    /\ InitLast

Next ==
    \/ \E s \in SenderIds, v \in Values : Send(s, v)
    \/ \E s \in SenderIds : SendAgain(s)
    \/ \E s \in SenderIds : SendCancel(s)
    \/ \E s \in SenderIds, v \in Values : UnboundedSend(s, v)
    \/ \E s \in SenderIds, v \in Values : TrySend(s, v)
    \/ \E s, t \in SenderIds : Clone(s, t)
    \/ \E s \in SenderIds : DropSender(s)
    \/ Recv
    \/ RecvAgain
    \/ RecvCancel
    \/ TryRecv
    \/ Close
    \/ DropReceiver

\* The mpsc channel: one channel(buffer) or unbounded_channel() and every
\* operation on its handles.
Spec == Init /\ [][Next]_vars

InitOneshot ==
    /\ InitMpscVars({None})
    /\ InitOneshotVars
    /\ InitTimeVars
    /\ InitIoVars
    /\ InitSelVars
    /\ InitLast

NextOneshot ==
    \/ \E v \in Values : OSend(v)
    \/ ODropSender
    \/ ORecvPoll
    \/ OTryRecv
    \/ OClose
    \/ ODropReceiver
    \/ OIsClosed
    \/ OClosed
    \/ OClosedAgain
    \/ OClosedCancel

\* The oneshot channel: one channel() and every operation on its handles.
SpecOneshot == InitOneshot /\ [][NextOneshot]_vars

InitTime ==
    /\ InitMpscVars({None})
    /\ InitOneshotVars
    /\ InitTimeVars
    /\ InitIoVars
    /\ InitSelVars
    /\ InitLast

NextTime ==
    \/ \E d \in Durations : Advance(d)
    \/ \E i \in DelayIds, d \in Durations : DelayFor(i, d)
    \/ \E i \in DelayIds, t \in 0..MaxTime : DelayUntil(i, t)
    \/ \E i \in DelayIds : DelayPoll(i)

\* The virtual clock of one thread and the Delays built on it.
SpecTime == InitTime /\ [][NextTime]_vars

InitIo ==
    /\ InitMpscVars({None})
    /\ InitOneshotVars
    /\ InitTimeVars
    /\ InitIoVars
    /\ InitSelVars
    /\ InitLast

NextIo ==
    \/ \E data \in Chunks : HandleRead(data)
    \/ HandleCloseRead
    \/ \E err \in ErrorKinds : HandleReadError(err)
    \/ \E data \in Chunks : HandleWrite(data)
    \/ HandleCloseWrite
    \/ \E err \in ErrorKinds : HandleWriteError(err)
    \/ HandleAllRead
    \/ HandleAllWritten
    \/ HandlePendingWrite
    \/ HandleAllDone
    \/ DropHandle
    \/ \E n \in BufLens : Read(n)
    \/ \E buf \in Chunks : Write(buf)
    \/ Flush
    \/ Shutdown

SpecIo == InitIo /\ [][NextIo]_vars

\* The read side of one stream with its history recorded; the write side is
\* left alone.
InitRead ==
    /\ InitMpscVars({None})
    /\ InitOneshotVars
    /\ InitTimeVars
    /\ shared = Shared_new
    /\ handle = "alive"
    /\ aborted = FALSE
    /\ readlog = NewLog(TRUE)
    /\ InitSelVars
    /\ InitLast

NextRead ==
    \/ \E data \in Chunks : HandleRead(data)
    \/ HandleCloseRead
    \/ \E err \in ErrorKinds : HandleReadError(err)
    \/ HandleAllRead
    \/ DropHandle
    \/ \E n \in BufLens : Read(n)

SpecRead == InitRead /\ [][NextRead]_vars

\* The tests of mock/mod.rs: a channel whose Receiver has been moved into a
\* spawned select_task, the test keeping the Sender and the clock. The
\* channel is a bounded one, as channel(16) is there; its capacity plays no
\* part in the race and the smallest one also makes a send suspend.
DriverSizes == {Some(1)}

InitDriver ==
    /\ InitMpscVars(DriverSizes)
    /\ InitOneshotVars
    /\ InitTimeVars
    /\ InitIoVars
    /\ selTask = SpawnedTask
    /\ InitLast

\* a panic of the task ends the test
Running == selTask.st /= "panicked"

NextDriver ==
    \/ SelectPoll
    \/ SelectDrop
    \/ Wake
    \/ \E duration \in Durations : Running /\ Advance(duration)
    \/ \E s \in SenderIds, value \in Values : Running /\ Send(s, value)
    \/ \E s \in SenderIds : Running /\ SendAgain(s)
    \/ \E s \in SenderIds : Running /\ SendCancel(s)
    \/ \E s \in SenderIds, value \in Values : Running /\ TrySend(s, value)
    \/ \E s, t \in SenderIds : Running /\ Clone(s, t)
    \/ \E s \in SenderIds : Running /\ DropSender(s)

SpecDriver == InitDriver /\ [][NextDriver]_vars

\* select_task(rx): the Receiver of a fresh channel is moved into a spawned,
\* not yet polled task
SelectSpawn ==
    /\ selTask = NoTask
    /\ rx = "alive"
    /\ ~recvFut
    /\ selTask' = SpawnedTask
    /\ last' = Ret("select_spawn", 0, None, "Done", None)
    /\ UNCHANGED <<mpscVars, oneshotVars, timeVars, ioVars>>

\* Each part of the mock as the thread's test found it: untouched.
MpscFresh ==
    /\ mpsc = ChannelData_new(mpsc.max_size)
    /\ tx = [s \in SenderIds |-> [st |-> IF s = 1 THEN "idle" ELSE "none", val |-> None]]
    /\ rx = "alive"
    /\ ~recvFut
    /\ sent = <<>>
    /\ received = <<>>
    /\ ~eos
    /\ selTask = NoTask
OneshotFresh ==
    /\ oneshot = OneshotData_new
    /\ otx = "alive"
    /\ orx = "alive"
    /\ ~closedFut
    /\ osent = None
    /\ ~otaken
DelaysFresh ==
    /\ delays = [i \in DelayIds |-> None]
    /\ fired = {}
IoFresh ==
    /\ shared = Shared_new
    /\ handle = "alive"
    /\ ~aborted
    /\ readlog = NewLog(FALSE)

\* One thread's scope: the clock with every primitive of the mock. A run
\* works with one primitive at a time, each usable while the others are
\* untouched, and advances the clock whenever it likes.
MpscTurn == OneshotFresh /\ DelaysFresh /\ IoFresh /\ Running
HeldRx == MpscTurn /\ selTask = NoTask
OneshotTurn == MpscFresh /\ DelaysFresh /\ IoFresh
DelaysTurn == MpscFresh /\ OneshotFresh /\ IoFresh
IoTurn == MpscFresh /\ OneshotFresh /\ DelaysFresh

\* The values and bytes play no part in what a scope checks: one of each.
ScopeValues == {1}
ScopeChunks == SeqsUpTo({1}, MaxChunk)

InitScope ==
    /\ InitMpscVars(DriverSizes)
    /\ InitOneshotVars
    /\ InitTimeVars
    /\ InitIoVars
    /\ InitSelVars
    /\ InitLast

NextScope ==
    \/ \E duration \in Durations : Running /\ Advance(duration)
    \/ \E i \in DelayIds, d \in Durations : DelaysTurn /\ DelayFor(i, d)
    \/ \E i \in DelayIds, t \in 0..MaxTime : DelaysTurn /\ DelayUntil(i, t)
    \/ \E i \in DelayIds : DelaysTurn /\ DelayPoll(i)
    \/ \E s \in SenderIds, v \in ScopeValues : MpscTurn /\ Send(s, v)
    \/ \E s \in SenderIds : MpscTurn /\ SendAgain(s)
    \/ \E s \in SenderIds : MpscTurn /\ SendCancel(s)
    \/ \E s \in SenderIds, v \in ScopeValues : MpscTurn /\ TrySend(s, v)
    \/ \E s, t \in SenderIds : MpscTurn /\ Clone(s, t)
    \/ \E s \in SenderIds : MpscTurn /\ DropSender(s)
    \/ HeldRx /\ Recv
    \/ HeldRx /\ RecvAgain
    \/ HeldRx /\ RecvCancel
    \/ HeldRx /\ TryRecv
    \/ HeldRx /\ Close
    \/ HeldRx /\ DropReceiver
    \/ MpscTurn /\ MpscFresh /\ SelectSpawn
    \/ MpscTurn /\ SelectPoll
    \/ MpscTurn /\ SelectDrop
    \/ MpscTurn /\ Wake
    \/ \E v \in ScopeValues : OneshotTurn /\ OSend(v)
    \/ OneshotTurn /\ ODropSender
    \/ OneshotTurn /\ ORecvPoll
    \/ OneshotTurn /\ OTryRecv
    \/ OneshotTurn /\ OClose
    \/ OneshotTurn /\ ODropReceiver
    \/ OneshotTurn /\ OIsClosed
    \/ OneshotTurn /\ OClosed
    \/ OneshotTurn /\ OClosedAgain
    \/ OneshotTurn /\ OClosedCancel
    \/ \E data \in ScopeChunks : IoTurn /\ HandleRead(data)
    \/ IoTurn /\ HandleCloseRead
    \/ \E err \in ErrorKinds : IoTurn /\ HandleReadError(err)
    \/ \E data \in ScopeChunks : IoTurn /\ HandleWrite(data)
    \/ IoTurn /\ HandleCloseWrite
    \/ \E err \in ErrorKinds : IoTurn /\ HandleWriteError(err)
    \/ IoTurn /\ HandleAllRead
    \/ IoTurn /\ HandleAllWritten
    \/ IoTurn /\ HandlePendingWrite
    \/ IoTurn /\ HandleAllDone
    \/ IoTurn /\ DropHandle
    \/ \E n \in BufLens : IoTurn /\ Read(n)
    \/ \E buf \in ScopeChunks : IoTurn /\ Write(buf)
    \/ IoTurn /\ Flush
    \/ IoTurn /\ Shutdown

SpecScope == InitScope /\ [][NextScope]_vars

BoundedSizes == {Some(c) : c \in 1..MaxCap}

InitConc ==
    /\ InitMpscVars(BoundedSizes)
    /\ InitOneshotVars
    /\ InitTimeVars
    /\ InitIoVars
    /\ InitSelVars
    /\ InitLast

NextConc ==
    \/ \E s \in SenderIds, v \in Values : SendCheck(s, v)
    \/ \E s \in SenderIds : SendCheckAgain(s)
    \/ \E s \in SenderIds : SendPush(s)
    \/ \E s \in SenderIds : SendCancel(s)
    \/ \E s \in SenderIds, v \in Values : TrySend(s, v)
    \/ \E s, t \in SenderIds : Clone(s, t)
    \/ \E s \in SenderIds : DropSender(s)
    \/ Recv
    \/ RecvAgain
    \/ RecvCancel
    \/ TryRecv
    \/ Close
    \/ DropReceiver

\* One bounded mpsc channel whose handles are used from several threads: the
\* operations interleave wherever the Mutex is released.
SpecConc == InitConc /\ [][NextConc]_vars

(***************************************************************************)
(* Properties of the mpsc channel, checked under Spec                      *)
(***************************************************************************)

Capacity == mpsc.max_size[1]
InFlight == Len(sent) - Len(received)
Drained == LiveSenders = {} /\ mpsc.queue = <<>>

\* C1: on a bounded channel of capacity C >= 1 whose Receiver is alive and has
\* not closed the channel, a poll of Sender::send made when C more sends have
\* succeeded than values were received (C sends and no receive) returns Pending,
\* enqueues nothing and leaves the send suspended; a poll made when fewer are
\* in flight (one recv has removed a value) returns Ok and enqueues the value
\* at the tail.
C1_QueueFull ==
    [][(/\ last'.op \in {"send", "send_again"}
        /\ rx = "alive"
        /\ Bounded
        /\ Capacity >= 1)
       => /\ InFlight = Capacity =>
               /\ last'.kind = "Pending"
               /\ mpsc'.queue = mpsc.queue
               /\ tx'[last'.who] = [st |-> "sending", val |-> last'.arg]
          /\ InFlight < Capacity =>
               /\ last'.kind = "Ok"
               /\ mpsc'.queue = Append(mpsc.queue, last'.arg[1])
               /\ tx'[last'.who].st = "idle"]_vars

\* C1 witness: capacity C >= 1, C + 1 sends have succeeded and one value was
\* received, and the last of them is a suspended send that was polled again.
C1_Witness ==
    /\ Bounded
    /\ Capacity >= 1
    /\ rx = "alive"
    /\ Len(sent) = Capacity + 1
    /\ Len(received) = 1
    /\ Len(mpsc.queue) = Capacity
    /\ last.op = "send_again"
    /\ last.kind = "Ok"

\* C2: the queue of a bounded channel never holds more values than the
\* capacity fixed at creation.
C2_QueueWithinCapacity == Bounded => Len(mpsc.queue) <= Capacity

\* C2 witness: a full queue of a channel of capacity >= 1 that has just turned
\* a send or try_send away.
C2_Witness ==
    /\ Bounded
    /\ Capacity >= 1
    /\ Len(mpsc.queue) = Capacity
    /\ last.op \in {"send", "send_again", "try_send"}
    /\ last.kind \in {"Pending", "Full"}

\* C3: once the Receiver is dropped, every send, re-polled suspended send,
\* unbounded send and try_send by any Sender fails, hands back the value that
\* was offered and leaves the queue as it was.
C3_SendFailsAfterReceiverDrop ==
    [][(rx = "dropped" /\ last'.op \in SendOps)
       => /\ last'.kind \in {"Err", "Closed"}
          /\ last'.val = last'.arg
          /\ last'.op = "send_again" => last'.val = tx[last'.who].val
          /\ mpsc'.queue = mpsc.queue
          /\ sent' = sent]_vars

\* C3 witness: the Receiver is gone, two Senders are alive, values are still
\* queued, and a send that had been suspended on the full queue has failed.
C3_Witness ==
    /\ rx = "dropped"
    /\ Cardinality(LiveSenders) >= 2
    /\ mpsc.queue /= <<>>
    /\ last.op = "send_again"
    /\ last.kind = "Err"
    /\ last.val = last.arg

\* C4 as stated: with every Sender dropped and the queue drained, a recv
\* completes with None only if none did before (end-of-stream is seen exactly
\* once), and every try_recv yields Closed.
C4_EndOfStreamExactlyOnce ==
    [][Drained
       => /\ last'.op \in RecvOps => (last'.kind = "None" /\ ~eos)
          /\ last'.op = "try_recv" => last'.kind = "Closed"]_vars

\* C4 as amended: with every Sender dropped and the queue drained, every recv
\* completes with None, each time it is called, every try_recv yields Closed,
\* and the channel stays drained.
C4_EndOfStreamEveryTime ==
    [][Drained
       => /\ last'.op \in RecvOps => (last'.kind = "None" /\ last'.val = None)
          /\ last'.op = "try_recv" => (last'.kind = "Closed" /\ last'.val = None)
          /\ Drained']_vars

\* C4 witness: every Sender is dropped, a recv has reported end-of-stream and a
\* later try_recv has answered Closed.
C4_Witness ==
    /\ Drained
    /\ sent /= <<>>
    /\ eos
    /\ last.op = "try_recv"
    /\ last.kind = "Closed"

\* C5: the values delivered so far followed by the values still queued are
\* exactly the values whose sends succeeded, in that order, whichever Sender
\* sent them; end-of-stream or Closed is reported only when all of them have
\* been delivered.
C5_Fifo ==
    /\ sent = received \o mpsc.queue
    /\ (last.op \in RecvOps \cup {"try_recv"} /\ last.kind \in {"None", "Closed"})
           => received = sent

\* C5 witness: two different values were sent, the last Sender was dropped
\* with both still queued, both were then delivered in order and end-of-stream
\* was reported after them.
C5_Witness ==
    /\ Len(sent) >= 2
    /\ sent[1] /= sent[2]
    /\ received = sent
    /\ LiveSenders = {}
    /\ last.op \in RecvOps \cup {"try_recv"}
    /\ last.kind \in {"None", "Closed"}

\* C6: try_send never suspends. On an inactive channel it returns Closed with
\* the offered value, full queue or not; on an active bounded channel whose
\* queue is at capacity it returns Full with the offered value; otherwise it
\* appends the value and returns Ok. A failure changes nothing of the channel.
C6_TrySend ==
    [][last'.op = "try_send"
       => /\ tx'[last'.who].st = "idle"
          /\ IF ~mpsc.is_active
             THEN /\ last'.kind = "Closed"
                  /\ last'.val = last'.arg
                  /\ mpsc' = mpsc
             ELSE IF Bounded /\ Len(mpsc.queue) = Capacity
             THEN /\ last'.kind = "Full"
                  /\ last'.val = last'.arg
                  /\ mpsc' = mpsc
             ELSE /\ last'.kind = "Ok"
                  /\ mpsc' = [mpsc EXCEPT !.queue = Append(mpsc.queue, last'.arg[1])]]_vars

\* C6 witness: a try_send on a channel that is inactive and full at the same
\* time has returned Closed.
C6_Witness ==
    /\ Bounded
    /\ Capacity >= 1
    /\ Len(mpsc.queue) = Capacity
    /\ ~mpsc.is_active
    /\ last.op = "try_send"
    /\ last.kind = "Closed"
    /\ last.val = last.arg

\* C19: the producer count always equals the number of live Sender handles
\* (one at the start, one more per clone, one fewer per drop, never below
\* zero); while a Sender is alive a recv on an empty queue is suspended and
\* try_recv yields Empty; end-of-stream (None, Closed) is returned only when
\* the count is zero.
C19_ProducerCount ==
    [][/\ mpsc.num_senders = Cardinality(LiveSenders)
       /\ mpsc'.num_senders = Cardinality(LiveSenders')
       /\ last'.op = "clone" => mpsc'.num_senders = mpsc.num_senders + 1
       /\ last'.op = "drop_sender" =>
              (mpsc.num_senders >= 1 /\ mpsc'.num_senders = mpsc.num_senders - 1)
       /\ (LiveSenders /= {} /\ mpsc.queue = <<>>) =>
              /\ last'.op \in RecvOps => last'.kind = "Pending"
              /\ last'.op = "try_recv" => last'.kind = "Empty"
       /\ (last'.op \in RecvOps \cup {"try_recv"} /\ last'.kind \in {"None", "Closed"}) =>
              mpsc.num_senders = 0]_vars

\* a recv on an empty queue is suspended although a Sender has been dropped:
\* a clone is still alive
C19_Witness ==
    /\ \E s \in SenderIds : tx[s].st = "dropped"
    /\ LiveSenders /= {}
    /\ mpsc.queue = <<>>
    /\ last.op \in RecvOps
    /\ last.kind = "Pending"

\* C20 as stated: the active flag is false in every state in which the
\* producer count is zero.
C20_InactiveAtZero == mpsc.num_senders = 0 => ~mpsc.is_active

\* C20: dropping or cloning a Sender changes the producer count only and
\* leaves the active flag as it is; the flag is false exactly when the
\* Receiver has been closed or dropped, whatever the producer count; with the
\* count at zero and the queue empty a recv completes with None and try_recv
\* yields Closed whether or not the flag is set.
C20_ActiveFlagIsReceivers ==
    [][/\ last'.op \in {"drop_sender", "clone"} =>
              /\ mpsc'.is_active = mpsc.is_active
              /\ mpsc'.queue = mpsc.queue
              /\ mpsc'.max_size = mpsc.max_size
       /\ mpsc'.is_active = (rx' = "alive")
       /\ (mpsc.num_senders = 0 /\ mpsc.queue = <<>>) =>
              /\ last'.op \in RecvOps => last'.kind = "None"
              /\ last'.op = "try_recv" => last'.kind = "Closed"]_vars

\* the last Sender has just been dropped and the channel is still active
C20_Witness ==
    /\ last.op = "drop_sender"
    /\ mpsc.num_senders = 0
    /\ mpsc.is_active

\* C27: a send poll that returns Pending leaves the channel data as it was;
\* on an active bounded channel with room any send, re-polled send or try_send,
\* from whichever Sender, succeeds and puts its value at the tail, and with no
\* room a send, first poll or later, is suspended: a slot freed by a receive
\* goes to the first attempt made afterwards.
C27_NoSlotReservation ==
    [][/\ (last'.op \in {"send", "send_again"} /\ last'.kind = "Pending") =>
              mpsc' = mpsc
       /\ (Bounded /\ mpsc.is_active /\ last'.op \in {"send", "send_again", "try_send"}) =>
              /\ Len(mpsc.queue) < Capacity =>
                     /\ last'.kind = "Ok"
                     /\ mpsc'.queue = Append(mpsc.queue, last'.arg[1])
              /\ (Len(mpsc.queue) >= Capacity /\ last'.op /= "try_send") =>
                     /\ last'.kind = "Pending"
                     /\ tx'[last'.who] = [st |-> "sending", val |-> last'.arg]]_vars

\* in a channel of capacity 1 a suspended send has been polled again after a
\* receive and is still suspended: the freed slot holds a later value
C27_Witness ==
    /\ mpsc.max_size = Some(1)
    /\ last.op = "send_again"
    /\ last.kind = "Pending"
    /\ received /= <<>>
    /\ Len(sent) = Len(received) + 1
    /\ Cardinality(LiveSenders) = 2

\* C28: the active flag, once false, stays false; send, try_send, recv,
\* try_recv, Sender clone and drop and the dropping of a suspended task leave
\* it as it is; Receiver::close and the Receiver's drop clear it and leave the
\* queue alone, and a closed Receiver still receives what was queued, in
\* order.
C28_InactiveForGood ==
    [][/\ ~mpsc.is_active => ~mpsc'.is_active
       /\ last'.op \notin {"close", "drop_receiver"} =>
              mpsc'.is_active = mpsc.is_active
       /\ last'.op \in {"close", "drop_receiver"} =>
              /\ ~mpsc'.is_active
              /\ mpsc'.queue = mpsc.queue
       /\ (rx = "closed" /\ mpsc.queue /= <<>> /\ last'.op \in RecvOps \cup {"try_recv"}) =>
              /\ last'.val = Some(Head(mpsc.queue))
              /\ mpsc'.queue = Tail(mpsc.queue)]_vars

\* a closed Receiver has just received a value queued before the close
C28_Witness ==
    /\ rx = "closed"
    /\ ~mpsc.is_active
    /\ last.op \in RecvOps
    /\ last.kind = "Some"

(***************************************************************************)
(* Properties of the oneshot channel, checked under SpecOneshot            *)
(***************************************************************************)

ORecvOps == {"oneshot_poll", "oneshot_try_recv"}
OSuspended(op) == IF op = "oneshot_poll" THEN "Pending" ELSE "Empty"
ODelivered(op) == IF op = "oneshot_poll" THEN "ReadyOk" ELSE "Ok"
OClosedOutcome(op) == IF op = "oneshot_poll" THEN "ReadyErr" ELSE "Closed"

\* C7: a poll of the oneshot Receiver, or its try_recv, is suspended / Empty
\* while the Sender is alive and has sent nothing; yields the value v once
\* send(v) has succeeded (and v was not handed out before), although send drops
\* the Sender; and yields the closed error / Closed when the Sender was dropped,
\* or consumed by a failed send, without a value reaching the slot.
C7_ReceiverOutcome ==
    [][last'.op \in ORecvOps
       => /\ otx = "alive" =>
               (last'.kind = OSuspended(last'.op) /\ last'.val = None)
          /\ (otx = "sent" /\ ~otaken) =>
               (last'.kind = ODelivered(last'.op) /\ last'.val = osent)
          /\ otx \in {"dropped", "send_failed"} =>
               (last'.kind = OClosedOutcome(last'.op) /\ last'.val = None)]_vars

\* C7 witness: send(v) succeeded and dropped the Sender, and the Receiver
\* polled afterwards has completed with v.
C7_Witness ==
    /\ otx = "sent"
    /\ oneshot.is_send_dropped
    /\ osent /= None
    /\ last.op = "oneshot_poll"
    /\ last.kind = "ReadyOk"
    /\ last.val = osent

\* C8: a oneshot send issued after the Receiver was dropped fails, returns the
\* offered value and leaves the slot as it was; the same holds whenever the
\* consumer-side drop flag is set, and that flag, once set, is never cleared.
C8_SendAfterReceiverDrop ==
    [][/\ (last'.op = "oneshot_send" /\ (orx = "dropped" \/ oneshot.is_recv_dropped))
          => /\ last'.kind = "Err"
             /\ last'.val = last'.arg
             /\ oneshot'.msg = oneshot.msg
             /\ osent' = osent
       /\ orx = "dropped" => oneshot.is_recv_dropped
       /\ oneshot.is_recv_dropped => oneshot'.is_recv_dropped]_vars

\* C8 witness: the Receiver was dropped, then send(v) returned Err(v) and the
\* slot is empty.
C8_Witness ==
    /\ orx = "dropped"
    /\ otx = "send_failed"
    /\ oneshot.msg = None
    /\ last.op = "oneshot_send"
    /\ last.kind = "Err"
    /\ last.val = last.arg

\* C9: while the oneshot Receiver is alive and not closed, is_closed() is false
\* and every poll of closed() is suspended; once the Receiver is dropped,
\* is_closed() is true and every poll of closed() completes, in that state and
\* in every later one, whether or not the Sender ever sends.
C9_ClosedSignal ==
    [][/\ (orx = "alive" /\ last'.op = "is_closed") => last'.kind = "False"
       /\ (orx = "alive" /\ last'.op \in {"closed", "closed_again"})
             => (last'.kind = "Pending" /\ closedFut')
       /\ (orx = "dropped" /\ last'.op = "is_closed") => last'.kind = "True"
       /\ (orx = "dropped" /\ last'.op \in {"closed", "closed_again"})
             => (last'.kind = "Ready" /\ ~closedFut')
       /\ orx = "dropped" => orx' = "dropped"]_vars

\* C9 witness: closed() was suspended, the Receiver was dropped, the Sender has
\* not sent, and the next poll of closed() has completed.
C9_Witness ==
    /\ otx = "alive"
    /\ orx = "dropped"
    /\ oneshot.msg = None
    /\ last.op = "closed_again"
    /\ last.kind = "Ready"

\* C26: a value enters the slot only through the one send a Sender allows,
\* when nothing was stored before; the slot holds nothing but that value; and
\* once the value has been taken by a poll or a try_recv the slot stays empty
\* and every further poll or try_recv yields the closed outcome without a
\* value.
C26_AtMostOnce ==
    [][/\ oneshot'.msg /= oneshot.msg =>
              \/ /\ last'.op = "oneshot_send"
                 /\ osent = None
                 /\ oneshot.msg = None
                 /\ oneshot'.msg = osent'
              \/ /\ last'.op \in ORecvOps
                 /\ oneshot'.msg = None
                 /\ last'.val = oneshot.msg
       /\ osent /= None => osent' = osent
       /\ otaken => (otaken' /\ oneshot'.msg = None)
       /\ (otaken /\ last'.op \in ORecvOps) =>
              /\ last'.kind = OClosedOutcome(last'.op)
              /\ last'.val = None]_vars

\* the value was taken and a later try_recv has found the channel closed
C26_Witness ==
    /\ otaken
    /\ osent /= None
    /\ last.op = "oneshot_try_recv"
    /\ last.kind = "Closed"

(***************************************************************************)
(* Properties of the clock and Delay, checked under SpecTime               *)
(***************************************************************************)

\* C10: a Delay made by delay_for(d) when the clock read t0 is suspended by
\* every poll while now() < t0 + d and completed by every poll once
\* now() >= t0 + d, the instant t0 + d included; once a poll has completed it,
\* every later poll completes it too.
C10_DelayFor ==
    [][(last'.op = "delay_poll" /\ made[last'.who] /= None
            /\ made[last'.who][1].by = "for")
       => LET m == made[last'.who][1]
          IN  /\ clock.now < m.t0 + m.d => last'.kind = "Pending"
              /\ clock.now >= m.t0 + m.d => last'.kind = "Ready"
              /\ last'.who \in fired => last'.kind = "Ready"]_vars

\* C10 witness: a Delay of d >= 1 polled exactly d after its construction has
\* completed.
C10_Witness ==
    /\ last.op = "delay_poll"
    /\ last.kind = "Ready"
    /\ made[last.who] /= None
    /\ made[last.who][1].by = "for"
    /\ made[last.who][1].d >= 1
    /\ made[last.who][1].t0 >= 1
    /\ clock.now = made[last.who][1].t0 + made[last.who][1].d

(***************************************************************************)
(* Properties of the scripted stream, checked under SpecIo                 *)
(***************************************************************************)

ReadSide == shared.read_channel
WriteSide == shared.write_channel

\* C13: a read on an Open read side with nothing queued is suspended and
\* changes nothing; with exactly one byte b queued, a read into a non-empty
\* buffer completes with length 1, delivers b and leaves the side Open with
\* nothing queued, so that a further read is suspended again.
C13_ReadScenario ==
    [][last'.op = "read" =>
         /\ ReadSide = Open(<<>>) =>
              /\ last'.kind = "Pending"
              /\ shared' = shared
         /\ \A b \in Bytes :
              (ReadSide = Open(<<b>>) /\ last'.arg[1] >= 1) =>
                  /\ last'.kind = "Ok"
                  /\ last'.val = <<b>>
                  /\ shared'.read_channel = Open(<<>>)]_vars

\* a read has just delivered the single queued byte
C13_Witness ==
    /\ last.op = "read"
    /\ last.kind = "Ok"
    /\ Len(last.val) = 1
    /\ ReadSide = Open(<<>>)

\* some position holds different bytes in buf and in the expected bytes
Differs(buf, expected) ==
    \E i \in 1..Min(Len(buf), Len(expected)) : buf[i] /= expected[i]

\* C14: on a write side that is Open with expected bytes E queued, a write of
\* exactly E completes with length |E| and consumes E; a write with a byte
\* that differs from the expected byte at its position panics and returns
\* nothing.
C14_WriteMatch ==
    [][(last'.op = "write" /\ WriteSide.st = "Open" /\ WriteSide.buffer /= <<>>) =>
         /\ last'.arg = WriteSide.buffer =>
              /\ last'.kind = "Ok"
              /\ last'.val = Some(Len(WriteSide.buffer))
              /\ shared'.write_channel = Open(<<>>)
              /\ ~aborted'
         /\ Differs(last'.arg, WriteSide.buffer) =>
              /\ last'.kind = "Panic"
              /\ last'.val = None
              /\ aborted']_vars

\* a write of two bytes whose second byte is not the expected one has panicked
C14_Witness ==
    /\ last.op = "write"
    /\ last.kind = "Panic"
    /\ Len(last.arg) = 2
    /\ aborted

\* C15: dropping the Handle (while no panic has poisoned the lock) closes both
\* sides whatever they held; from then on both sides stay Closed, every read
\* completes with length 0 and no read, write, flush or shutdown is suspended.
C15_HandleDrop ==
    [][/\ (last'.op = "drop_handle" /\ ~aborted) =>
              /\ shared'.read_channel = Closed
              /\ shared'.write_channel = Closed
       /\ (handle = "dropped" /\ ~aborted) =>
              /\ shared'.read_channel = Closed
              /\ shared'.write_channel = Closed
              /\ ~aborted'
              /\ last'.op = "read" => (last'.kind = "Ok" /\ last'.val = <<>>)
              /\ last'.op \in {"read", "write", "flush", "shutdown"} =>
                     last'.kind = "Ok"]_vars

\* a write has completed after the Handle was dropped
C15_Witness ==
    /\ handle = "dropped"
    /\ ~aborted
    /\ last.op = "write"
    /\ last.arg /= <<>>
    /\ last.kind = "Ok"

\* C17 as stated: a read on an Open, non-empty read side with a buffer shorter
\* than what is queued panics.
C17_SmallBufferAborts ==
    [][(/\ last'.op = "read"
        /\ ReadSide.st = "Open"
        /\ ReadSide.buffer /= <<>>
        /\ last'.arg[1] < Len(ReadSide.buffer)) =>
           (last'.kind = "Panic" /\ aborted')]_vars

\* C17: a read on an Open, non-empty read side with a buffer of n cells,
\* n less than the number of bytes queued, completes with length n: it
\* delivers the first n bytes queued, leaves the rest queued and does not panic.
C17_SmallBufferPartial ==
    [][(/\ last'.op = "read"
        /\ ReadSide.st = "Open"
        /\ ReadSide.buffer /= <<>>
        /\ last'.arg[1] < Len(ReadSide.buffer)) =>
           /\ last'.kind = "Ok"
           /\ last'.val = SubSeq(ReadSide.buffer, 1, last'.arg[1])
           /\ shared'.read_channel =
                  Open(SubSeq(ReadSide.buffer, last'.arg[1] + 1, Len(ReadSide.buffer)))
           /\ shared'.write_channel = WriteSide
           /\ ~aborted']_vars

\* a read has filled its buffer and bytes are still queued
C17_Witness ==
    /\ last.op = "read"
    /\ last.kind = "Ok"
    /\ last.arg[1] >= 1
    /\ Len(last.val) = last.arg[1]
    /\ ReadSide.st = "Open"
    /\ ReadSide.buffer /= <<>>

\* C18 as stated: a write on a Closed write side reports the length of the
\* caller's buffer and changes nothing.
C18_ClosedWriteAcceptsAll ==
    [][(last'.op = "write" /\ WriteSide = Closed) =>
           /\ last'.kind = "Ok"
           /\ last'.val = Some(Len(last'.arg))
           /\ shared' = shared]_vars

\* C18: a write on a Closed write side completes at once with length 0,
\* whatever the caller's buffer holds, and changes nothing.
C18_ClosedWriteZero ==
    [][(last'.op = "write" /\ WriteSide = Closed) =>
           /\ last'.kind = "Ok"
           /\ last'.val = Some(0)
           /\ shared' = shared
           /\ ~aborted']_vars

\* a write of at least one byte on a Closed write side has returned
C18_Witness ==
    /\ last.op = "write"
    /\ last.arg /= <<>>
    /\ WriteSide = Closed
    /\ last.val = Some(0)

(***************************************************************************)
(* Properties of the task driver and the select task, under SpecDriver     *)
(***************************************************************************)

\* what the suspended select task waits for has happened: a value is queued
\* or the clock has reached the deadline of its Delay
AwaitedTrue ==
    \/ mpsc.queue /= <<>>
    \/ Delay_is_elapsed(selTask.delay[1], clock)

\* C12: the task changes only when Spawn::poll is called on it (or it is
\* dropped) and produces its result only in a poll; invoking the waker changes
\* nothing at all; a suspended send changes only when its own task is polled
\* or dropped; a suspended task whose awaited condition holds stays suspended
\* under every other operation and leaves suspension at its next poll, with
\* its result unless the recv it polls first finds the channel ended.
C12_OnlyPollAdvances ==
    [][/\ selTask' /= selTask => last'.op \in {"select_poll", "select_drop"}
       /\ selTask'.out /= selTask.out => last'.op = "select_poll"
       /\ last'.op = "wake" =>
              UNCHANGED <<mpscVars, oneshotVars, timeVars, ioVars, selVars>>
       /\ \A s \in SenderIds :
              (tx[s].st = "sending" /\ tx'[s] /= tx[s]) =>
                  (last'.op \in {"send_again", "send_cancel"} /\ last'.who = s)
       /\ (selTask.st = "suspended" /\ AwaitedTrue /\ last'.op = "select_poll") =>
              /\ last'.kind /= "Pending"
              /\ (mpsc.queue /= <<>> \/ mpsc.num_senders > 0) =>
                     (last'.kind = "Ready" /\ selTask'.st = "done")]_vars

\* the waker has been invoked on a suspended task whose value is already
\* queued, and the task is still suspended
C12_Witness ==
    /\ last.op = "wake"
    /\ selTask.st = "suspended"
    /\ mpsc.queue /= <<>>

\* C16: a poll of the select task with nothing queued, a Sender alive and the
\* clock short of the deadline is suspended; with a value queued before the
\* deadline it completes with that value; with nothing queued, a Sender alive
\* and the deadline reached it completes with the timeout outcome None. The
\* deadline is the clock at the first poll plus the delay.
C16_SelectRace ==
    [][last'.op = "select_poll" =>
         LET dl == IF selTask.st = "spawned"
                   THEN [deadline |-> clock.now + SelectDelay]
                   ELSE selTask.delay[1]
             reached == clock.now >= dl.deadline
         IN  /\ selTask'.delay = Some(dl)
             /\ (mpsc.queue = <<>> /\ mpsc.num_senders > 0 /\ ~reached) =>
                    /\ last'.kind = "Pending"
                    /\ selTask'.st = "suspended"
                    /\ mpsc' = mpsc
             /\ (mpsc.queue /= <<>> /\ ~reached) =>
                    /\ last'.kind = "Ready"
                    /\ last'.val = Some(Some(Head(mpsc.queue)))
                    /\ selTask'.out = Some(Some(Head(mpsc.queue)))
                    /\ mpsc'.queue = Tail(mpsc.queue)
             /\ (mpsc.queue = <<>> /\ mpsc.num_senders > 0 /\ reached) =>
                    /\ last'.kind = "Ready"
                    /\ last'.val = Some(None)
                    /\ selTask'.out = Some(None)]_vars

\* the task has completed with the timeout outcome: nothing was sent and the
\* Sender is still alive
C16_Witness ==
    /\ last.op = "select_poll"
    /\ selTask.st = "done"
    /\ selTask.out = Some(None)
    /\ sent = <<>>
    /\ LiveSenders /= {}

(***************************************************************************)
(* Properties of the clock among all the primitives, under SpecScope       *)
(***************************************************************************)

\* C11: now() changes only in a step of advance(duration), which adds exactly
\* duration to it; every other operation (a poll of the driver, the
\* construction or poll of a Delay, a channel or stream operation) leaves the
\* clock as it is, and now() never decreases.
C11_ClockOnlyAdvances ==
    [][/\ clock'.now >= clock.now
       /\ last'.op = "advance" => clock'.now = clock.now + last'.arg[1]
       /\ last'.op /= "advance" => clock' = clock
       /\ clock' /= clock => last'.op = "advance"]_vars

\* a stream operation has run after the clock was advanced twice or by two
C11_Witness ==
    /\ clock.now >= 2
    /\ last.op = "write"

(***************************************************************************)
(* Properties of the mpsc channel under concurrent callers, under SpecConc *)
(***************************************************************************)

\* C21: a value is enqueued only while the queue is below capacity and the
\* channel is active: the admission check of send and its enqueue are one
\* atomic step.
C21_SendCheckAndPushAtomic ==
    [][Len(mpsc'.queue) > Len(mpsc.queue) =>
           /\ Len(mpsc.queue) < mpsc.max_size[1]
           /\ mpsc.is_active]_vars

(***************************************************************************)
(* Further properties of the scripted stream, checked under SpecIo         *)
(***************************************************************************)

\* C22: Handle::read(data) on a read side that is Closed or Failing leaves it
\* Open holding exactly data, and on an Open side appends data to what is
\* queued; Handle::write(data) does the same to the write side; neither
\* touches the other side or the write-pending flag. A read on the reopened
\* side then delivers from those bytes and a write is matched against them:
\* neither returns end-of-stream or the error.
C22_QueueingRearms ==
    [][/\ last'.op = "handle_read" =>
              /\ shared'.read_channel =
                     IF ReadSide.st = "Open" THEN Open(ReadSide.buffer \o last'.arg)
                     ELSE Open(last'.arg)
              /\ shared'.write_channel = WriteSide
              /\ shared'.write_pending = shared.write_pending
       /\ last'.op = "handle_write" =>
              /\ shared'.write_channel =
                     IF WriteSide.st = "Open" THEN Open(WriteSide.buffer \o last'.arg)
                     ELSE Open(last'.arg)
              /\ shared'.read_channel = ReadSide
              /\ shared'.write_pending = shared.write_pending
       /\ (last.op = "handle_read" /\ last.arg /= <<>> /\ last'.op = "read"
           /\ last'.arg[1] >= 1) =>
              /\ last'.kind = "Ok"
              /\ last'.val /= <<>>
              /\ last'.val = SubSeq(ReadSide.buffer, 1, Len(last'.val))
       /\ (last.op = "handle_write" /\ last.arg /= <<>> /\ last'.op = "write") =>
              last'.kind \in {"Ok", "Panic"}]_vars

\* a read has delivered bytes on a read side that had been closed, failed or
\* abandoned earlier: only Handle::read can have reopened it
C22_Witness ==
    /\ ~readlog.open
    /\ last.op = "read"
    /\ last.kind = "Ok"
    /\ last.val /= <<>>

\* C23 as stated: after a write attempt, write_pending is true exactly when
\* that attempt found the write side Open with nothing queued.
C23_FlagIffFoundOpenEmpty ==
    [][last'.op = "write" =>
           (shared'.write_pending = (WriteSide = Open(<<>>)))]_vars

\* the outcome of a read or a write step is the one the same call gives with
\* write_pending inverted: the flag has no part in it
FlagIgnored ==
    LET flipped == [shared EXCEPT !.write_pending = ~@]
    IN  /\ last'.op = "write" =>
               LET b == MockIO_poll_write(flipped, last'.arg)
               IN  /\ b.kind = last'.kind
                   /\ b.val = last'.val
                   /\ b.data.write_channel = shared'.write_channel
                   /\ b.data.read_channel = shared'.read_channel
        /\ last'.op = "read" =>
               LET b == MockIO_poll_read(flipped, last'.arg[1])
               IN  /\ b.kind = last'.kind
                   /\ b.val = last'.val
                   /\ b.data.write_channel = shared'.write_channel
                   /\ b.data.read_channel = shared'.read_channel

\* C23: a write that finds the write side Open and empty sets write_pending
\* and is suspended; a write that finds it Open with bytes queued and returns
\* sets the flag when the queued bytes ran out before the end of the caller's
\* buffer and clears it when every byte of the buffer was matched; a write
\* that finds the side Closed or Failing, or panics, leaves the flag alone, as
\* does every operation other than a write; pending_write() returns the flag,
\* and the flag never influences the outcome of a read or a write.
C23_PendingWriteFlag ==
    [][/\ last'.op = "write" =>
              /\ WriteSide = Open(<<>>) =>
                     (last'.kind = "Pending" /\ shared'.write_pending)
              /\ (WriteSide.st = "Open" /\ WriteSide.buffer /= <<>> /\ last'.kind = "Ok") =>
                     (shared'.write_pending = (Len(WriteSide.buffer) < Len(last'.arg)))
              /\ (WriteSide.st \in {"Closed", "Error"} \/ last'.kind = "Panic") =>
                     shared'.write_pending = shared.write_pending
       /\ last'.op /= "write" => shared'.write_pending = shared.write_pending
       /\ last'.op = "pending_write" => last'.val = Some(shared.write_pending)
       /\ FlagIgnored]_vars

\* a write has been accepted in part and has left the flag set
C23_Witness ==
    /\ last.op = "write"
    /\ last.kind = "Ok"
    /\ last.val[1] >= 1
    /\ shared.write_pending

\* C24: a read on a read side Failing(kind) completes with an error of that
\* kind and changes nothing, and so does a write on a Failing write side, each
\* time it is tried; a Failing side stays as it is until the Handle queues
\* data on it, closes it, sets another error or is dropped; read_error and
\* close_read leave the write side and the flag alone, write_error and
\* close_write the read side.
C24_ErrorsPersist ==
    [][/\ (last'.op = "read" /\ ReadSide.st = "Error") =>
              /\ last'.kind = "Err"
              /\ last'.val = ReadSide.err
              /\ shared' = shared
       /\ (last'.op = "write" /\ WriteSide.st = "Error") =>
              /\ last'.kind = "Err"
              /\ last'.val = WriteSide.err
              /\ shared' = shared
       /\ last'.op = "read_error" => shared'.read_channel = Error(last'.arg[1])
       /\ last'.op = "write_error" => shared'.write_channel = Error(last'.arg[1])
       /\ last'.op = "close_read" => shared'.read_channel = Closed
       /\ last'.op = "close_write" => shared'.write_channel = Closed
       /\ last'.op \in {"read_error", "close_read"} =>
              /\ shared'.write_channel = WriteSide
              /\ shared'.write_pending = shared.write_pending
       /\ last'.op \in {"write_error", "close_write"} =>
              /\ shared'.read_channel = ReadSide
              /\ shared'.write_pending = shared.write_pending
       /\ (ReadSide.st = "Error" /\ shared'.read_channel /= ReadSide) =>
              last'.op \in {"handle_read", "close_read", "read_error", "drop_handle"}
       /\ (WriteSide.st = "Error" /\ shared'.write_channel /= WriteSide) =>
              last'.op \in {"handle_write", "close_write", "write_error", "drop_handle"}]_vars

\* a read has failed with the scripted kind for the second time in a row
\* while the write side is still Open
C24_Witness ==
    /\ last.op = "read"
    /\ last.kind = "Err"
    /\ last.rep
    /\ ReadSide = Error(last.val[1])
    /\ WriteSide.st = "Open"

(***************************************************************************)
(* The read side's history, checked under SpecRead                         *)
(***************************************************************************)

IsPrefix(p, q) == Len(p) <= Len(q) /\ SubSeq(q, 1, Len(p)) = p

\* C29: while the read side has stayed Open, the bytes delivered so far
\* followed by the bytes still queued are exactly the bytes Handle::read has
\* queued, in order, so that what was delivered is a prefix of what was
\* scripted; each completing read delivers min(buffer length, bytes queued)
\* bytes from the front and leaves the rest queued.
C29_DeliveredIsPrefix ==
    [][/\ Recording' =>
              /\ readlog'.scripted = readlog'.delivered \o shared'.read_channel.buffer
              /\ IsPrefix(readlog'.delivered, readlog'.scripted)
       /\ (Recording /\ last'.op = "read" /\ last'.kind = "Ok") =>
              LET k == Min(last'.arg[1], Len(ReadSide.buffer))
              IN  /\ last'.val = SubSeq(ReadSide.buffer, 1, k)
                  /\ shared'.read_channel =
                         Open(SubSeq(ReadSide.buffer, k + 1, Len(ReadSide.buffer)))
                  /\ readlog'.delivered = readlog.delivered \o last'.val]_vars

\* two reads have delivered part of what was scripted and a byte is still
\* queued
C29_Witness ==
    /\ Recording
    /\ last.op = "read"
    /\ Len(readlog.delivered) >= 2
    /\ Len(last.val) < Len(readlog.delivered)
    /\ ReadSide.buffer /= <<>>

(***************************************************************************)
(* The deadline of a Delay, checked under SpecTime                         *)
(***************************************************************************)

\* C25: the deadline of a Delay made by delay_for(d) is now() at the call plus
\* d, that of a Delay made by delay_until(t) is t; no later operation, advance
\* and poll included, changes it, and a poll answers by comparing now() with
\* that deadline, so that the clock's advances since the construction count.
C25_DeadlineFixedAtConstruction ==
    [][/\ last'.op = "delay_for" =>
              delays'[last'.who] = Some([deadline |-> clock.now + last'.arg[1]])
       /\ last'.op = "delay_until" =>
              delays'[last'.who] = Some([deadline |-> last'.arg[1]])
       /\ \A i \in DelayIds :
              /\ delays[i] /= None => delays'[i] = delays[i]
              /\ made'[i] /= None =>
                     delays'[i][1].deadline =
                         IF made'[i][1].by = "for"
                         THEN made'[i][1].t0 + made'[i][1].d
                         ELSE made'[i][1].d
       /\ last'.op = "delay_poll" =>
              ((last'.kind = "Ready") = (clock.now >= delays[last'.who][1].deadline))]_vars

\* the clock has been advanced to the deadline of a Delay made by
\* delay_for(d), d >= 1, at a time t0 >= 1, and no poll has completed it yet
C25_Witness ==
    /\ last.op = "advance"
    /\ \E i \in DelayIds :
           /\ made[i] /= None
           /\ made[i][1].by = "for"
           /\ made[i][1].t0 >= 1
           /\ made[i][1].d >= 1
           /\ delays[i][1].deadline = made[i][1].t0 + made[i][1].d
           /\ clock.now >= delays[i][1].deadline
           /\ i \notin fired

====
